---- MODULE Spec2Model ----
(***************************************************************************)
(* A model of ynal (packrat386/ynal): the HTTP server that serves license  *)
(* texts as text/plain, text/html or application/json, chosen from the     *)
(* request's Accept header by mostAcceptable (src/main.go).                *)
(*                                                                         *)
(* An Accept header is modelled as the sequence of its comma separated     *)
(* fields; a field is a record [media, q]: the text before the first ";"   *)
(* and the text of its q parameter ("" when the field has none).  A        *)
(* float64 is a record [nan, val] with val in tenths (0.9 is 9, 1.0 is 10).*)
(***************************************************************************)
EXTENDS Integers, Sequences, FiniteSets, TLC

\* ------------------------------------------------------------------ bounds
\* Longest short Accept header (in fields) that is enumerated in full.
MaxLen == 3
\* Long headers: PadHead heavy fields, one light field, then two fields each
\* preceded by PadGap filler fields (PadHead + 2 * PadGap + 3 fields in all).
PadHead == 10
PadGap == 4
\* Requests in flight at the same time.
MaxReqs == 2

\* ------------------------------------------------------- Accept header text
T(m, q) == [media |-> m, q |-> q]

\* The fields short headers are built from.
Tokens ==
  { T("text/plain", ""), T("text/plain", "0.5"), T("text/html", "0.9"),
    T("text/html", "NaN"), T("Text/HTML", "-1"), T("application/json", "0.5"),
    T("*/*", "abc"), T("application/xhtml+xml", "5"), T("lol/wut", ""),
    T("lol/wut", "NaN"), T("", ""), T("text/", "0.9") }

Rep(n, t) == [i \in 1..n |-> t]

Max(S) == CHOOSE x \in S : \A y \in S : y <= x
Min(S) == CHOOSE x \in S : \A y \in S : x <= y

SeqsUpTo(S, n) == UNION { [1..k -> S] : k \in 0..n }

ShortHeaders == SeqsUpTo(Tokens, MaxLen)

LongHeaders ==
  { Rep(PadHead, f) \o <<T("lol/wut", "-1")>> \o Rep(PadGap, g) \o <<t>>
      \o Rep(PadGap, g) \o <<u>> :
      f \in { T("lol/wut", "5"), T("text/css", "") },
      g \in { T("lol/wut", "NaN") },
      t \in Tokens, u \in Tokens }

Headers == ShortHeaders \cup LongHeaders

\* strings.Split(accept, ","): the empty header is one empty field.
Split(accept) == IF accept = << >> THEN << T("", "") >> ELSE accept

\* mime.ParseMediaType on one field: the media type lower-cased, the
\* parameters, or an error (no media type; no token after the slash).
ParseMediaType(v) ==
  CASE v.media = ""          -> [err |-> TRUE, mediatype |-> "", q |-> ""]
    [] v.media = "text/"     -> [err |-> TRUE, mediatype |-> "", q |-> ""]
    [] v.media = "Text/HTML" -> [err |-> FALSE, mediatype |-> "text/html", q |-> v.q]
    [] OTHER                 -> [err |-> FALSE, mediatype |-> v.media, q |-> v.q]

F(v) == [nan |-> FALSE, val |-> v]
NaN == [nan |-> TRUE, val |-> 0]

\* strconv.ParseFloat(s, 64) on the q texts of the model.
ParseFloat(s) ==
  CASE s = "0.5" -> [err |-> FALSE, f |-> F(5)]
    [] s = "0.9" -> [err |-> FALSE, f |-> F(9)]
    [] s = "5"   -> [err |-> FALSE, f |-> F(50)]
    [] s = "-1"  -> [err |-> FALSE, f |-> F(-10)]
    [] s = "NaN" -> [err |-> FALSE, f |-> NaN]
    [] OTHER     -> [err |-> TRUE, f |-> F(0)]

\* float64 comparison: every comparison with a NaN is false.
Gt(x, y) == ~x.nan /\ ~y.nan /\ x.val > y.val
Lt(x, y) == ~x.nan /\ ~y.nan /\ x.val < y.val

\* The weight of a parsed field: 1.0 unless q parses.
WeightOf(p) == IF ParseFloat(p.q).err THEN F(10) ELSE ParseFloat(p.q).f

\* type AcceptType, with ord: the field's place in the header (auxiliary,
\* read by no operation of the program).
AcceptType(p, i) == [MediaType |-> p.mediatype, RelativeWeight |-> WeightOf(p), ord |-> i]

\* Whether the loop appends a candidate for field v: not when it fails to parse.
Appended(v) == ~ParseMediaType(v).err

\* The loop with break in the place of continue: the fields after the first
\* one that does not parse are never looked at.
ParseLoop_Abort(options) ==
  LET bad == { i \in 1..Len(options) : ~Appended(options[i]) }
      cut == IF bad = {} THEN Len(options) ELSE Min(bad) - 1
  IN [k \in 1..cut |-> AcceptType(ParseMediaType(options[k]), k)]

\* for _, v := range options { ...; acceptable = append(acceptable, ...) }:
\* one candidate for each field the loop does not skip, in the fields' order.
ParseLoop(options) ==
  LET numbered == [i \in 1..Len(options) |-> [v |-> options[i], i |-> i]]
      kept     == SelectSeq(numbered, LAMBDA x : Appended(x.v))
  IN [k \in 1..Len(kept) |-> AcceptType(ParseMediaType(kept[k].v), kept[k].i)]

Acceptable(accept) == ParseLoop(Split(accept))

\* The comparison function handed to slices.SortStableFunc.
cmp(a, b) ==
  IF Gt(a.RelativeWeight, b.RelativeWeight) THEN -1
  ELSE IF Lt(a.RelativeWeight, b.RelativeWeight) THEN 1
  ELSE 0

\* ------------------------------------------------ slices.SortStableFunc
\* The stable sort of the Go library as mostAcceptable calls it: insertion
\* sort of blocks of blockSize elements, then SymMerge of neighbouring blocks.
\* Indices are Go's (from 0); data[i] is At(data, i).
blockSize == 20

At(data, i) == data[i + 1]
Half(i, j) == (i + j) \div 2

\* The element at index from moved to index to, those between shifted by one.
Move(data, from, to) ==
  [k \in 1..Len(data) |->
     IF k - 1 = to THEN At(data, from)
     ELSE IF from < to /\ from <= k - 1 /\ k - 1 < to THEN data[k + 1]
     ELSE IF to < from /\ to < k - 1 /\ k - 1 <= from THEN data[k - 1]
     ELSE data[k]]

\* for j := i; j > a && cmp(data[j], data[j-1]) < 0; j-- { swap(j, j-1) }
\* data[i] moves down to the first j (from i) whose left neighbour it is not
\* less than, or to a.
insertInner(data, a, i) ==
  Move(data, i,
       Max({a} \cup { j \in (a + 1)..i : ~(cmp(At(data, i), At(data, j - 1)) < 0) }))

RECURSIVE insertOuter(_, _, _, _)
insertOuter(data, a, b, i) ==
  IF i < b THEN insertOuter(insertInner(data, a, i), a, b, i + 1) ELSE data

insertionSortCmpFunc(data, a, b) == insertOuter(data, a, b, a + 1)

\* rotate exchanges the blocks data[a:m] and data[m:b], each kept in order.
rotateCmpFunc(data, a, m, b) ==
  [k \in 1..Len(data) |->
     IF k - 1 < a \/ k - 1 >= b THEN data[k]
     ELSE IF k - 1 < a + (b - m) THEN data[k + (m - a)]
     ELSE data[k - (b - m)]]

\* lowest i in [i, j) with data[i] >= data[a]
RECURSIVE searchFirst(_, _, _, _)
searchFirst(data, a, i, j) ==
  IF i < j
  THEN IF cmp(At(data, Half(i, j)), At(data, a)) < 0
       THEN searchFirst(data, a, Half(i, j) + 1, j)
       ELSE searchFirst(data, a, i, Half(i, j))
  ELSE i

\* lowest i in [i, j) with data[i] > data[m]
RECURSIVE searchLast(_, _, _, _)
searchLast(data, m, i, j) ==
  IF i < j
  THEN IF ~(cmp(At(data, m), At(data, Half(i, j))) < 0)
       THEN searchLast(data, m, Half(i, j) + 1, j)
       ELSE searchLast(data, m, i, Half(i, j))
  ELSE i

\* for k := a; k < lim; k++ { swap(k, k+1) }
swapUp(data, k, lim) == IF k < lim THEN Move(data, k, lim) ELSE data

\* for k := m; k > lim; k-- { swap(k, k-1) }
swapDown(data, k, lim) == IF k > lim THEN Move(data, k, lim) ELSE data

\* for start < r { c := (start+r)/2; if !(data[p-c] < data[c]) ... }
RECURSIVE searchSym(_, _, _, _)
searchSym(data, p, start, r) ==
  IF start < r
  THEN IF ~(cmp(At(data, p - Half(start, r)), At(data, Half(start, r))) < 0)
       THEN searchSym(data, p, Half(start, r) + 1, r)
       ELSE searchSym(data, p, start, Half(start, r))
  ELSE start

RECURSIVE symMergeCmpFunc(_, _, _, _)
symMergeCmpFunc(data, a, m, b) ==
  IF m - a = 1
  THEN swapUp(data, a, searchFirst(data, a, m, b) - 1)
  ELSE IF b - m = 1
  THEN swapDown(data, m, searchLast(data, m, a, m))
  ELSE
    LET mid   == Half(a, b)
        n     == mid + m
        start == IF m > mid THEN searchSym(data, n - 1, n - b, mid)
                 ELSE searchSym(data, n - 1, a, m)
        end   == n - start
        d1    == IF start < m /\ m < end THEN rotateCmpFunc(data, start, m, end)
                 ELSE data
        d2    == IF a < start /\ start < mid THEN symMergeCmpFunc(d1, a, start, mid)
                 ELSE d1
    IN IF mid < end /\ end < b THEN symMergeCmpFunc(d2, mid, end, b) ELSE d2

\* for b <= n { insertionSort(data, a, b); a = b; b += blockSize }; then the rest
RECURSIVE sortBlocks(_, _, _, _)
sortBlocks(data, a, b, n) ==
  IF b <= n THEN sortBlocks(insertionSortCmpFunc(data, a, b), b, b + blockSize, n)
  ELSE insertionSortCmpFunc(data, a, n)

\* one pass of merges of blocks of size bs
RECURSIVE mergePass(_, _, _, _, _)
mergePass(data, a, b, bs, n) ==
  IF b <= n THEN mergePass(symMergeCmpFunc(data, a, a + bs, b), b, b + 2 * bs, bs, n)
  ELSE IF a + bs < n THEN symMergeCmpFunc(data, a, a + bs, n)
  ELSE data

\* for blockSize < n { ...; blockSize *= 2 }
RECURSIVE mergeLoop(_, _, _)
mergeLoop(data, bs, n) ==
  IF bs < n THEN mergeLoop(mergePass(data, 0, 2 * bs, bs, n), 2 * bs, n) ELSE data

SortStableFunc(data) ==
  mergeLoop(sortBlocks(data, 0, blockSize, Len(data)), blockSize, Len(data))

\* ------------------------------------------------------- mostAcceptable
\* The switch with application/xhtml+xml returned as the client sent it.
Representation_PassThrough(m) ==
  CASE m \in {"text/plain", "*/*"} -> "text/plain"
    [] m = "text/html" -> "text/html"
    [] m = "application/xhtml+xml" -> "application/xhtml+xml"
    [] m = "application/json" -> "application/json"
    [] OTHER -> ""

\* The switch of the final scan: the representation a media type maps to,
\* "" when the case list has no entry for it.
Representation(m) ==
  CASE m \in {"text/plain", "*/*"} -> "text/plain"
    [] m \in {"text/html", "application/xhtml+xml"} -> "text/html"
    [] m = "application/json" -> "application/json"
    [] OTHER -> ""

\* for _, a := range acceptable { switch a.MediaType {...} }: the index of the
\* first candidate the switch returns on, 0 when the loop falls through.
Scan(sorted) ==
  LET hits == { i \in 1..Len(sorted) : Representation(sorted[i].MediaType) # "" }
  IN IF hits = {} THEN 0 ELSE Min(hits)

Sorted(accept) == SortStableFunc(Acceptable(accept))

\* mostAcceptable without its final return "text/plain": the zero string when
\* the scan falls through.
mostAcceptable_NoDefault(accept) ==
  LET sorted == Sorted(accept)
      k      == Scan(sorted)
  IN IF k = 0 THEN "" ELSE Representation(sorted[k].MediaType)

mostAcceptable(accept) ==
  LET sorted == Sorted(accept)
      k      == Scan(sorted)
  IN IF k = 0 THEN "text/plain" ELSE Representation(sorted[k].MediaType)

\* ------------------------------------------------------------ the server
VARIABLES
  pc,       \* main: "start", "handlers", "ready", "serving" or "panicked"
  err,      \* the error appHandler returned, "" when none
  fsys,     \* the embedded files: what parses, reads and renders
  todo,     \* the license paths appHandler still has to go through
  handlers, \* URL -> the byte slices its handler closes over
  supported,\* the LicenseData appended so far
  index,    \* newPublicHandler's buf
  rpc,      \* request -> "idle", "received", "negotiated" or "done"
  rURL,     \* request -> the license route it asks for
  rAccept,  \* request -> its Accept header
  rMedia,   \* request -> the handler's local mediatype
  resp      \* request -> what the handler wrote

vars == <<pc, err, fsys, todo, handlers, supported, index,
          rpc, rURL, rAccept, rMedia, resp>>
startup == <<pc, err, fsys, todo, handlers, supported, index>>

Reqs == 1..MaxReqs

\* fs.Glob(licensesFS, "licenses/*.txt"), in its (sorted) order.
Licenses == << "licenses/Apache-2.0.txt", "licenses/MIT.txt" >>
LicensePaths == { Licenses[i] : i \in 1..Len(Licenses) }

pathToTitle(lpath) ==
  CASE lpath = "licenses/MIT.txt" -> "MIT"
    [] lpath = "licenses/Apache-2.0.txt" -> "Apache-2.0"

pathToURL(lpath) ==
  CASE lpath = "licenses/MIT.txt" -> "/mit"
    [] lpath = "licenses/Apache-2.0.txt" -> "/apache-2.0"

URLs == { pathToURL(p) : p \in LicensePaths }

\* The contents of a license file.
ReadFile(lpath) ==
  CASE lpath = "licenses/MIT.txt" -> "MIT License text"
    [] lpath = "licenses/Apache-2.0.txt" -> "Apache License text"

LicenseData(lpath) ==
  [Title |-> pathToTitle(lpath), Text |-> ReadFile(lpath), URL |-> pathToURL(lpath)]

\* Byte slices are sequences of pieces of text.
toHTML(l) == << "license.html.tmpl", l.Title, l.Text, l.URL >>
toJSON(l) == << "{title:", l.Title, "content:", l.Text, "url:", l.URL, "}" >>

\* What the closure of handlerFor captures.
Captured(lpath) ==
  [plainData |-> << ReadFile(lpath) >>,
   htmlData  |-> toHTML(LicenseData(lpath)),
   jsonData  |-> toJSON(LicenseData(lpath))]

NoHandler == [plainData |-> << >>, htmlData |-> << >>, jsonData |-> << >>]
NoResp == [status |-> 0, ctype |-> "", body |-> << >>]

FileSystems ==
  [parseOk : BOOLEAN, unreadable : SUBSET LicensePaths,
   htmlFails : SUBSET LicensePaths, indexOk : BOOLEAN]

NoRequests ==
  /\ rpc = [r \in Reqs |-> "idle"]
  /\ rURL = [r \in Reqs |-> ""]
  /\ rAccept = [r \in Reqs |-> << >>]
  /\ rMedia = [r \in Reqs |-> ""]
  /\ resp = [r \in Reqs |-> NoResp]

Init ==
  /\ pc = "start"
  /\ err = ""
  /\ fsys \in FileSystems
  /\ todo = << >>
  /\ handlers = [u \in URLs |-> NoHandler]
  /\ supported = << >>
  /\ index = << >>
  /\ NoRequests

\* appHandler, up to the loop: template.ParseFS, fs.Sub, fs.Glob.
ParseTemplates ==
  /\ pc = "start"
  /\ IF fsys.parseOk
     THEN /\ pc' = "handlers"
          /\ todo' = Licenses
          /\ err' = err
     ELSE /\ pc' = "panicked"
          /\ err' = "could not parse templates"
          /\ todo' = todo
  /\ UNCHANGED <<fsys, handlers, supported, index, rpc, rURL, rAccept, rMedia, resp>>

\* Whether handlerFor(lpath) returns an error.
handlerForFails(lpath) == lpath \in fsys.unreadable \/ lpath \in fsys.htmlFails

\* One turn of the loop of appHandler: handlerFor, mux.Handle, append.
HandlerFor ==
  /\ pc = "handlers"
  /\ todo # << >>
  /\ LET lpath == Head(todo) IN
     IF handlerForFails(lpath)
     THEN /\ pc' = "panicked"
          /\ err' = "could not init handler"
          /\ UNCHANGED <<todo, handlers, supported>>
     ELSE /\ handlers' = [handlers EXCEPT ![pathToURL(lpath)] = Captured(lpath)]
          /\ supported' = Append(supported, LicenseData(lpath))
          /\ todo' = Tail(todo)
          /\ UNCHANGED <<pc, err>>
  /\ UNCHANGED <<fsys, index, rpc, rURL, rAccept, rMedia, resp>>

\* What newPublicHandler leaves in buf: the error of ExecuteTemplate is dropped.
IndexPage(ok, sup) == IF ok THEN << "index.html.tmpl", sup >> ELSE << >>

\* Whether newPublicHandler makes appHandler return an error.
indexFails(ok) == FALSE

\* The end of appHandler: mux.Handle("/", newPublicHandler(...)); return mux, nil.
NewPublicHandler ==
  /\ pc = "handlers"
  /\ todo = << >>
  /\ index' = IndexPage(fsys.indexOk, supported)
  /\ IF indexFails(fsys.indexOk)
     THEN pc' = "panicked" /\ err' = "could not render index"
     ELSE pc' = "ready" /\ err' = err
  /\ UNCHANGED <<fsys, todo, handlers, supported, rpc, rURL, rAccept, rMedia, resp>>

\* main: srv.ListenAndServe().
ListenAndServe ==
  /\ pc = "ready"
  /\ pc' = "serving"
  /\ UNCHANGED <<err, fsys, todo, handlers, supported, index,
                 rpc, rURL, rAccept, rMedia, resp>>

\* The Accept headers of the requests of Spec.
ReqHeaders ==
  { << >>, << T("text/html", "0.9") >>, << T("application/json", "0.5") >>,
    << T("lol/wut", "") >>,
    << T("text/css", ""), T("text/plain", "0.5"), T("text/html", "0.9") >> }

\* A GET of a license route reaches its handler.
Receive(r, url, accept) ==
  /\ pc = "serving"
  /\ rpc[r] = "idle"
  /\ rpc' = [rpc EXCEPT ![r] = "received"]
  /\ rURL' = [rURL EXCEPT ![r] = url]
  /\ rAccept' = [rAccept EXCEPT ![r] = accept]
  /\ UNCHANGED <<startup, rMedia, resp>>

\* mediatype := mostAcceptable(r.Header.Get("Accept"))
ServeNegotiate(r) ==
  /\ rpc[r] = "received"
  /\ rMedia' = [rMedia EXCEPT ![r] = mostAcceptable(rAccept[r])]
  /\ rpc' = [rpc EXCEPT ![r] = "negotiated"]
  /\ UNCHANGED <<startup, rURL, rAccept, resp>>

\* The switch with the text/html case writing plainData.
Respond_WrongBody(h, mediatype) ==
  CASE mediatype = "text/plain" ->
         [status |-> 200, ctype |-> "text/plain", body |-> h.plainData]
    [] mediatype = "text/html" ->
         [status |-> 200, ctype |-> "text/html", body |-> h.plainData]
    [] mediatype = "application/json" ->
         [status |-> 200, ctype |-> "application/json", body |-> h.jsonData]
    [] OTHER ->
         [status |-> 406, ctype |-> "text/plain; charset=utf-8",
          body |-> << "unrecognized media type: ", mediatype >>]

\* switch mediatype { ... }: the header and the body written.
Respond(h, mediatype) ==
  CASE mediatype = "text/plain" ->
         [status |-> 200, ctype |-> "text/plain", body |-> h.plainData]
    [] mediatype = "text/html" ->
         [status |-> 200, ctype |-> "text/html", body |-> h.htmlData]
    [] mediatype = "application/json" ->
         [status |-> 200, ctype |-> "application/json", body |-> h.jsonData]
    [] OTHER ->
         [status |-> 406, ctype |-> "text/plain; charset=utf-8",
          body |-> << "unrecognized media type: ", mediatype >>]

\* A handler that renders into the captured htmlData again as it writes.
AfterWrite_Clobber(hs, url) ==
  [hs EXCEPT ![url].htmlData = hs[url].htmlData \o hs[url].htmlData]

\* The byte slices of the handlers after a handler has written its response:
\* the closure only reads plainData, htmlData and jsonData.
AfterWrite(hs, url) == hs

ServeWrite(r) ==
  /\ rpc[r] = "negotiated"
  /\ resp' = [resp EXCEPT ![r] = Respond(handlers[rURL[r]], rMedia[r])]
  /\ handlers' = AfterWrite(handlers, rURL[r])
  /\ rpc' = [rpc EXCEPT ![r] = "done"]
  /\ UNCHANGED <<pc, err, fsys, todo, supported, index, rURL, rAccept, rMedia>>

\* The response is sent and the request is over.
Finish(r) ==
  /\ rpc[r] = "done"
  /\ rpc' = [rpc EXCEPT ![r] = "idle"]
  /\ rURL' = [rURL EXCEPT ![r] = ""]
  /\ rAccept' = [rAccept EXCEPT ![r] = << >>]
  /\ rMedia' = [rMedia EXCEPT ![r] = ""]
  /\ resp' = [resp EXCEPT ![r] = NoResp]
  /\ UNCHANGED startup

Next ==
  \/ ParseTemplates
  \/ HandlerFor
  \/ NewPublicHandler
  \/ ListenAndServe
  \/ \E r \in Reqs, url \in URLs, accept \in ReqHeaders : Receive(r, url, accept)
  \/ \E r \in Reqs : ServeNegotiate(r)
  \/ \E r \in Reqs : ServeWrite(r)
  \/ \E r \in Reqs : Finish(r)

Spec == Init /\ [][Next]_vars

\* ---------------------------------------------- negotiation on its own
\* The server is up (every file read and rendered) and one request with an
\* Accept header of Headers has reached the handler of /mit.
Serving(ok) ==
  /\ pc = "serving"
  /\ err = ""
  /\ fsys = [parseOk |-> TRUE, unreadable |-> {}, htmlFails |-> {}, indexOk |-> ok]
  /\ todo = << >>
  /\ handlers = [u \in URLs |-> Captured(CHOOSE p \in LicensePaths : pathToURL(p) = u)]
  /\ supported = [i \in 1..Len(Licenses) |-> LicenseData(Licenses[i])]
  /\ index = IndexPage(ok, supported)

InitNegotiate ==
  /\ Serving(TRUE)
  /\ rpc = [r \in Reqs |-> IF r = 1 THEN "received" ELSE "idle"]
  /\ rURL = [r \in Reqs |-> IF r = 1 THEN "/mit" ELSE ""]
  /\ \E accept \in Headers : rAccept = [r \in Reqs |-> IF r = 1 THEN accept ELSE << >>]
  /\ rMedia = [r \in Reqs |-> ""]
  /\ resp = [r \in Reqs |-> NoResp]

NextNegotiate ==
  \/ \E r \in Reqs : ServeNegotiate(r)
  \/ \E r \in Reqs : ServeWrite(r)

SpecNegotiate == InitNegotiate /\ [][NextNegotiate]_vars

\* ------------------------------------------------------------ the claims
\* The table of the specification, written out on its own: the media types a
\* client may send that the server can answer, and what each is answered with.
SupportedTable ==
  { "text/plain", "*/*", "text/html", "application/xhtml+xml", "application/json" }
ThreeTypes == { "text/plain", "text/html", "application/json" }
TableMap(m) ==
  CASE m \in { "text/plain", "*/*" } -> "text/plain"
    [] m \in { "text/html", "application/xhtml+xml" } -> "text/html"
    [] m = "application/json" -> "application/json"

\* The handler of request r has called mostAcceptable.
Negotiated(r) == rpc[r] \in { "negotiated", "done" }
\* The candidates of request r in the order of its header, and those supported.
Cands(r) == Acceptable(rAccept[r])
Supp(r) == { i \in 1..Len(Cands(r)) : Cands(r)[i].MediaType \in SupportedTable }
\* The candidate the scan of request r returned on (a record with ord = 0 when
\* the scan fell through to the default).
Selected(r) ==
  LET sorted == Sorted(rAccept[r])
      hits   == { i \in 1..Len(sorted) : sorted[i].MediaType \in SupportedTable }
  IN IF hits = {} THEN [MediaType |-> "", RelativeWeight |-> F(10), ord |-> 0]
     ELSE sorted[Min(hits)]
InUnit(w) == ~w.nan /\ 0 <= w.val /\ w.val <= 10
SameWeight(v, w) == ~v.nan /\ ~w.nan /\ v.val = w.val
\* A field that mime.ParseMediaType rejects.
Malformed(v) == v.media \in { "", "text/" }
RemoveAt(h, i) == [k \in 1..(Len(h) - 1) |-> IF k < i THEN h[k] ELSE h[k + 1]]

\* C1: the result is the representation of a supported candidate that no
\* supported candidate of the header outweighs (weight: q, or 1.0 when q is
\* absent or does not parse).
C1_HighestSupportedWins ==
  \A r \in Reqs : Negotiated(r) /\ Supp(r) # {} =>
    \E i \in Supp(r) :
      /\ TableMap(Cands(r)[i].MediaType) = rMedia[r]
      /\ \A j \in Supp(r) :
           ~Lt(Cands(r)[i].RelativeWeight, Cands(r)[j].RelativeWeight)

\* C2: of two supported candidates of equal weight, the one listed later in
\* the header is never the one selected.
C2_EarliestOfEqualWins ==
  \A r \in Reqs : Negotiated(r) =>
    \A i \in Supp(r), j \in Supp(r) :
      i < j /\ SameWeight(Cands(r)[i].RelativeWeight, Cands(r)[j].RelativeWeight)
        => ~(Selected(r).ord = Cands(r)[j].ord
             /\ rMedia[r] = TableMap(Cands(r)[j].MediaType))

\* C3: a header that is empty or holds no candidate of the supported table
\* resolves to text/plain.
C3_DefaultIsPlain ==
  \A r \in Reqs : Negotiated(r) /\ Supp(r) = {} => rMedia[r] = "text/plain"

C3_Witness ==
  \E r \in Reqs : /\ rpc[r] = "done"
                  /\ rAccept[r] = << T("lol/wut", "") >>
                  /\ resp[r].ctype = "text/plain"

\* C4: whatever the header, malformed ones included, mostAcceptable returns
\* one of text/plain, text/html, application/json, and the handler never
\* answers 406.
C4_OneOfThreeNever406 ==
  \A r \in Reqs : /\ Negotiated(r) => rMedia[r] \in ThreeTypes
                  /\ rpc[r] = "done" => resp[r].status = 200

C4_Witness ==
  \E r \in Reqs : /\ rpc[r] = "done"
                  /\ rAccept[r] = << T("text/", "0.9"), T("application/xhtml+xml", "5") >>
                  /\ resp[r].status = 200

\* The byte slice computed at startup for a license route and a media type.
StartupBytes(url, mediatype) ==
  LET h == Captured(CHOOSE p \in LicensePaths : pathToURL(p) = url)
  IN CASE mediatype = "text/plain" -> h.plainData
       [] mediatype = "text/html" -> h.htmlData
       [] mediatype = "application/json" -> h.jsonData
       [] OTHER -> << >>

\* C5: the response carries the media type mostAcceptable resolved from the
\* request's Accept header as its Content-Type, without a charset, and the
\* precomputed bytes of that same representation as its body.
C5_BodyMatchesContentType ==
  \A r \in Reqs : rpc[r] = "done" =>
    /\ resp[r].ctype = mostAcceptable(rAccept[r])
    /\ resp[r].ctype \in ThreeTypes
    /\ resp[r].body = StartupBytes(rURL[r], resp[r].ctype)

C5_Witness ==
  \E r \in Reqs : /\ rpc[r] = "done"
                  /\ rURL[r] = "/mit"
                  /\ rAccept[r] = << T("text/css", ""), T("text/plain", "0.5"),
                                     T("text/html", "0.9") >>
                  /\ resp[r].ctype = "text/html"
                  /\ resp[r].body = toHTML(LicenseData("licenses/MIT.txt"))

\* C6: a field that does not parse as a media type changes nothing: the
\* result for a header is the result for the header without that field,
\* wherever the field stands.
C6_MalformedFieldIgnored ==
  \A r \in Reqs : Negotiated(r) =>
    \A i \in 1..Len(rAccept[r]) :
      Malformed(rAccept[r][i]) => rMedia[r] = mostAcceptable(RemoveAt(rAccept[r], i))

C6_Witness ==
  \E r \in Reqs : /\ rpc[r] = "done"
                  /\ rAccept[r] = << T("text/", "0.9"), T("text/html", "0.9"),
                                     T("text/plain", "") >>
                  /\ rMedia[r] = "text/plain"

\* C7: when a license file cannot be read, the templates do not parse, or a
\* template (license.html.tmpl or index.html.tmpl) fails to render,
\* appHandler returns an error and the server never listens.
C7_StartupFailsFast ==
  (~fsys.parseOk \/ fsys.unreadable # {} \/ fsys.htmlFails # {} \/ ~fsys.indexOk)
    => /\ pc \notin { "ready", "serving" }
       /\ pc = "panicked" => err # ""

\* The fields of request r.
ReqState(r) == << rpc[r], rURL[r], rAccept[r], rMedia[r], resp[r] >>

\* C8: once the server listens, no step changes what the handlers share (the
\* byte slices, the index page), a step touches one request only, and every
\* body written is the bytes computed at startup for its license and type.
C8_ReadOnlyWhileServing ==
  [][pc = "serving" =>
       /\ handlers' = handlers /\ index' = index /\ supported' = supported
       /\ \A r1 \in Reqs, r2 \in Reqs :
            ReqState(r1)' # ReqState(r1) /\ ReqState(r2)' # ReqState(r2) => r1 = r2
       /\ \A r \in Reqs : rpc'[r] = "done" =>
            resp'[r].body = StartupBytes(rURL'[r], resp'[r].ctype)]_vars

C8_Witness ==
  \E r1 \in Reqs, r2 \in Reqs :
    /\ r1 # r2
    /\ rpc[r1] = "done" /\ rpc[r2] = "negotiated"
    /\ rURL[r1] = rURL[r2] /\ rMedia[r1] = rMedia[r2]
    /\ resp[r1].body = StartupBytes(rURL[r1], rMedia[r1])

\* C9: a candidate whose q is NaN or negative is never the one selected when
\* the header also holds a supported candidate with a weight in [0,1].
C9_NaNOrNegativeNeverWins ==
  \A r \in Reqs :
    ( /\ Negotiated(r)
      /\ Selected(r).ord # 0
      /\ rMedia[r] = TableMap(Selected(r).MediaType)
      /\ (Selected(r).RelativeWeight.nan \/ Selected(r).RelativeWeight.val < 0) )
    => ~\E i \in Supp(r) : InUnit(Cands(r)[i].RelativeWeight)

\* C10: every candidate mostAcceptable builds has a weight in [0,1].
C10_WeightInUnitRange ==
  \A r \in Reqs : Negotiated(r) =>
    \A i \in 1..Len(Cands(r)) : InUnit(Cands(r)[i].RelativeWeight)

====
